---- MODULE Spec2Model ----
(***************************************************************************)
(* Model of the_features.py: a Streamlit script that is re-executed from   *)
(* its first line on every interaction.  One script run loads an uploaded  *)
(* CSV, cleans it into a year-indexed table, coerces one chosen column     *)
(* into a numeric series and hands it to four renderers in a fixed order.  *)
(***************************************************************************)
EXTENDS Integers, Sequences, FiniteSets, TLC

(***************************************************************************)
(* Bounds of the model                                                     *)
(***************************************************************************)
\* rows of the exhaustively enumerated tables (specification SpecClean)
MaxRows == 2
\* integer years 1..MaxYear of the exhaustively enumerated tables
MaxYear == 2
\* rows of the exhaustively enumerated tables with two value columns
MaxWideRows == 1
\* the generated short tables of a session have 0..MaxShort rows
MaxShort == 2
\* the generated long tables have 2*Period-1 .. 2*Period+MaxOver rows
MaxOver == 1
\* p-values 0.00 .. MaxP/100 are returned by the unit-root test
MaxP == 7

(***************************************************************************)
(* Program constants                                                       *)
(***************************************************************************)
\* seasonal_decompose(..., period=10)
Period == 10
\* result[1] < 0.05, in hundredths
PThreshold == 5
\* df.head() shows the first five rows
HeadRows == 5

(***************************************************************************)
(* Scalars.  Every scalar is a record [k, v]:                              *)
(*   raw CSV tokens  "int" (v), "frac" (v + 1/2), "inf", "text", "blank"   *)
(*   float64 values  "float" (v counts halves), "posinf", "nan"            *)
(*   Int64 values    "Int64" (v), "NA"                                     *)
(*   index labels    "range" (v), "period" (year v, annual frequency)      *)
(***************************************************************************)
Cell(k, v) == [k |-> k, v |-> v]

Some(x) == <<x>>
NoValue == <<>>
IsSet(o) == o # <<>>
Get(o) == o[1]

Min(a, b) == IF a < b THEN a ELSE b

RECURSIVE KeepAt(_, _)
\* the elements of s at the positions where mask is TRUE, in order
KeepAt(s, mask) ==
    IF s = <<>> THEN <<>>
    ELSE IF Head(mask) THEN <<Head(s)>> \o KeepAt(Tail(s), Tail(mask))
         ELSE KeepAt(Tail(s), Tail(mask))

\* number of occurrences of name in a sequence of names
Count(names, name) == Cardinality({i \in 1..Len(names) : names[i] = name})

\* pd.to_numeric(x, errors="coerce") on one token
ToNumeric(c) ==
    CASE c.k = "int"  -> Cell("float", 2 * c.v)
      [] c.k = "frac" -> Cell("float", 2 * c.v + 1)
      [] c.k = "inf"  -> Cell("posinf", 0)
      [] OTHER        -> Cell("nan", 0)

\* .astype("Int64") accepts a float only if it is missing or integral
CastsToInt64(f) == f.k = "nan" \/ (f.k = "float" /\ f.v % 2 = 0)

\* .astype("Int64") on one float
AsInt64(f) == IF f.k = "nan" THEN Cell("NA", 0) ELSE Cell("Int64", f.v \div 2)

\* isna() of a scalar
IsNa(x) == x.k \in {"nan", "NA"}

\* pd.PeriodIndex(values, freq="Y") on one integer year
ToPeriod(y) == Cell("period", y.v)

(***************************************************************************)
(* Data frames: [columns, index, data], data[i] is row i, aligned with     *)
(* columns.  Series: [index, values].                                      *)
(***************************************************************************)
Frame(columns, index, data) == [columns |-> columns, index |-> index, data |-> data]

RangeIndex(n) == [i \in 1..n |-> Cell("range", i - 1)]

\* pd.read_csv of a well-formed upload
ParseCsv(f) == Frame(f.header, RangeIndex(Len(f.rows)), f.rows)

\* df.rename(columns={df.columns[0]: "YEAR"})
RenameFirst(d) ==
    Frame([j \in 1..Len(d.columns) |-> IF d.columns[j] = d.columns[1] THEN "YEAR" ELSE d.columns[j]],
          d.index, d.data)

\* df["YEAR"] is one column only when the name is unique
YearIsOneColumn(d) == Count(d.columns, "YEAR") = 1

\* every value of column 1 survives to_numeric(...).astype("Int64")
YearCasts(d) == \A i \in 1..Len(d.data) : CastsToInt64(ToNumeric(d.data[i][1]))

\* df["YEAR"] = pd.to_numeric(df["YEAR"], errors="coerce").astype("Int64")
CoerceYearColumn(d) ==
    Frame(d.columns, d.index,
          [i \in 1..Len(d.data) |->
              [j \in 1..Len(d.columns) |->
                  IF j = 1 THEN AsInt64(ToNumeric(d.data[i][1])) ELSE d.data[i][j]]])

\* dropna() without subset: a row goes when any of its cells is missing
DropNaAnyColumn(d) ==
    LET mask == [i \in 1..Len(d.data) |->
                    \A j \in 1..Len(d.columns) : d.data[i][j].k \notin {"NA", "nan", "blank"}]
    IN  Frame(d.columns, KeepAt(d.index, mask), KeepAt(d.data, mask))

\* df.dropna(subset=["YEAR"])
DropNaYearRows(d) ==
    LET mask == [i \in 1..Len(d.data) |-> ~IsNa(d.data[i][1])]
    IN  Frame(d.columns, KeepAt(d.index, mask), KeepAt(d.data, mask))

\* df.set_index(pd.PeriodIndex(df["YEAR"], freq="Y")); df.drop(columns=["YEAR"])
SetYearIndex(d) ==
    Frame(Tail(d.columns),
          [i \in 1..Len(d.data) |-> ToPeriod(d.data[i][1])],
          [i \in 1..Len(d.data) |-> Tail(d.data[i])])

\* st.selectbox(label, df.columns): the chosen option, None without options
SelectBox(options, sel) ==
    IF options = <<>> THEN NoValue ELSE Some(options[sel])

\* position of column name c in d
ColumnOf(d, c) == CHOOSE j \in 1..Len(d.columns) : d.columns[j] = c

\* pd.to_numeric(df[col], errors="coerce").dropna()
NumericSeries(d, c) ==
    LET j    == ColumnOf(d, c)
        vals == [i \in 1..Len(d.data) |-> ToNumeric(d.data[i][j])]
        mask == [i \in 1..Len(d.data) |-> ~IsNa(vals[i])]
    IN  [index |-> KeepAt(d.index, mask), values |-> KeepAt(vals, mask)]

(***************************************************************************)
(* Uploads.  An upload either parses as delimited text (header and rows of *)
(* tokens) or does not (read_csv raises).                                  *)
(***************************************************************************)
Csv(header, rows) == [parses |-> TRUE, header |-> header, rows |-> rows]
Garbage == [parses |-> FALSE, header |-> <<>>, rows |-> <<>>]

YearCells == {Cell("int", y) : y \in 1..MaxYear} \cup {Cell("frac", 1), Cell("text", 0)}
ValCells == {Cell("int", 1), Cell("text", 0), Cell("blank", 0), Cell("inf", 0)}

\* all rows of one year token followed by nv value tokens
RowsOf(nv) ==
    {<<y>> \o vs : y \in YearCells, vs \in [1..nv -> ValCells]}

\* all sequences over S of length at most n
SeqUpTo(S, n) == UNION {[1..m -> S] : m \in 0..n}

NarrowHeaders == {<<"Date">>, <<"YEAR", "TEMP">>, <<"Date", "YEAR">>}
WideHeader == <<"YEAR", "TEMP", "RAIN">>

\* every small table
AllTables ==
    {Csv(h, rs) : h \in {<<"Date">>}, rs \in SeqUpTo(RowsOf(0), MaxRows)}
    \cup {Csv(h, rs) : h \in NarrowHeaders \ {<<"Date">>}, rs \in SeqUpTo(RowsOf(1), MaxRows)}
    \cup {Csv(WideHeader, rs) : rs \in SeqUpTo(RowsOf(2), MaxWideRows)}

YearPatterns == {"asc", "desc_dup", "badfirst", "frac"}
ValPatterns == {"num", "text", "gap", "inf"}

\* the year token of row i of an n-row generated table
YearAt(yp, n, i) ==
    CASE yp = "asc"      -> Cell("int", i)
      [] yp = "desc_dup" -> Cell("int", (n - i + 2) \div 2)
      [] yp = "badfirst" -> IF i = 1 THEN Cell("text", 0) ELSE Cell("int", i)
      [] OTHER           -> IF i = 1 THEN Cell("frac", 1) ELSE Cell("int", i)

\* the token of the first value column in row i
ValAt(vp, i) ==
    CASE vp = "num"  -> Cell("int", i)
      [] vp = "text" -> Cell("text", 0)
      [] vp = "gap"  -> IF i = 1 THEN Cell("blank", 0) ELSE Cell("int", i)
      [] OTHER       -> IF i = 1 THEN Cell("inf", 0) ELSE Cell("int", i)

\* an n-row table; a second value column is numeric throughout
GenTable(h, n, yp, vp) ==
    Csv(h, [i \in 1..n |->
              [j \in 1..Len(h) |->
                  IF j = 1 THEN YearAt(yp, n, i)
                  ELSE IF j = 2 THEN ValAt(vp, i) ELSE Cell("int", i)]])

SessionSizes == (0..MaxShort) \cup ((2 * Period - 1)..(2 * Period + MaxOver))

\* the uploads of a session
SessionFiles ==
    {Garbage}
    \cup {GenTable(h, n, yp, "num") :
            h \in {<<"Date">>, <<"YEAR", "TEMP">>, WideHeader}, n \in SessionSizes, yp \in YearPatterns}
    \cup {GenTable(h, n, "asc", vp) :
            h \in {<<"YEAR", "TEMP">>, WideHeader}, n \in SessionSizes, vp \in ValPatterns}

(***************************************************************************)
(* The library calls, by the outcomes they can have on a series            *)
(***************************************************************************)
PValue(c) == [nan |-> FALSE, c |-> c]
NaNP == [nan |-> TRUE, c |-> 0]
PValues == {PValue(c) : c \in 0..MaxP} \cup {NaNP}

\* float comparison p < t: false whenever p is NaN
FloatLess(p, t) == ~p.nan /\ p.c < t

Raised(e) == [ok |-> FALSE, p |-> NaNP, e |-> e]
Returned(p) == [ok |-> TRUE, p |-> p, e |-> ""]

IsEmpty(s) == Len(s.values) = 0
AllFinite(s) == \A i \in 1..Len(s.values) : s.values[i].k = "float"

\* series.plot(ax=ax): an empty period-indexed series has no x data to take limits of
PlotOutcomes(s) == IF IsEmpty(s) THEN {Returned(NaNP), Raised("empty")} ELSE {Returned(NaNP)}

\* adfuller(series, autolag='AIC')
AdfOutcomes(s) ==
    IF IsEmpty(s) THEN {Raised("empty")}
    ELSE {Raised("numerical")} \cup {Returned(p) : p \in PValues}

\* plot_acf(series), plot_pacf(series)
AcfOutcomes(s) ==
    IF IsEmpty(s) THEN {Raised("empty")}
    ELSE {Raised("lags"), Returned(NaNP)}

\* seasonal_decompose(series, model="additive", period=10) and the four plots
DecompOutcomes(s) ==
    IF ~AllFinite(s) THEN {Raised("missing")}
    ELSE IF Len(s.values) < 2 * Period THEN {Raised("too_short")}
    ELSE {Raised("other"), Returned(NaNP)}

(***************************************************************************)
(* Rendered elements                                                       *)
(***************************************************************************)
El(w, t) == [w |-> w, t |-> t, e |-> "", n |-> 0]
Err(t, e) == [w |-> "error", t |-> t, e |-> e, n |-> 0]
Table(n) == [w |-> "write", t |-> "df.head", e |-> "", n |-> n]

\* lines 8-10
Banner == <<El("title", "Time Series Analysis App"), El("sidebar.header", "Upload Dataset")>>

\* lines 17-18
RawPanel(d) == <<El("subheader", "Raw Data"), Table(Min(HeadRows, Len(d.data)))>>

\* the comparison written as result[1] <= 0.05
VerdictInclusive(p) ==
    IF ~p.nan /\ p.c <= PThreshold THEN El("success", "Series is likely stationary")
    ELSE El("warning", "Series is not stationary")

\* lines 51-54
Verdict(p) ==
    IF FloatLess(p, PThreshold) THEN El("success", "Series is likely stationary")
    ELSE El("warning", "Series is not stationary")

\* lines 47-56
AdfPanel(o) ==
    IF o.ok THEN <<El("write", "ADF Statistic"), El("write", "p-value"), Verdict(o.p)>>
    ELSE <<Err("ADF test failed", o.e)>>

\* lines 62-68
AcfPanel(o) ==
    IF o.ok THEN <<El("pyplot", "acf_pacf")>> ELSE <<Err("ACF/PACF plotting failed", o.e)>>

\* lines 74-95
DecompPanel(o) ==
    IF o.ok THEN <<El("pyplot", "decomposition"), El("markdown", "Explanation")>>
    ELSE <<Err("Decomposition failed", o.e)>>

(***************************************************************************)
(* State                                                                   *)
(***************************************************************************)
VARIABLES
    file,     \* the uploader's value: NoValue or Some(upload); kept across runs
    choice,   \* the select box's chosen position; kept across runs
    pc,       \* the line the current run of the script has reached
    df,       \* the script's df: NoValue until read_csv returns
    col,      \* the script's col: NoValue until selectbox returns, then Some(None or a name)
    series,   \* the script's series: NoValue until it is assigned
    result,   \* the script's result: NoValue until adfuller returns
    out,      \* the elements the current run has rendered, in order
    exc       \* the exception that ended the run, NoValue if none

vars == <<file, choice, pc, df, col, series, result, out, exc>>

\* a run that starts with the previous run's variables still bound
StaleRun ==
    /\ pc' = "start"
    /\ out' = <<>>
    /\ exc' = NoValue
    /\ UNCHANGED <<df, col, series, result>>

\* a new run starts with an empty page and no script variable bound
FreshRun ==
    /\ pc' = "start"
    /\ df' = NoValue
    /\ col' = NoValue
    /\ series' = NoValue
    /\ result' = NoValue
    /\ out' = <<>>
    /\ exc' = NoValue

\* an exception no handler catches ends the run; Streamlit shows it
Uncaught(at, type) ==
    /\ pc' = "crashed"
    /\ exc' = Some([at |-> at, type |-> type])
    /\ out' = Append(out, El("exception", type))

Init ==
    /\ file = NoValue
    /\ choice = 1
    /\ pc = "start"
    /\ df = NoValue
    /\ col = NoValue
    /\ series = NoValue
    /\ result = NoValue
    /\ out = <<>>
    /\ exc = NoValue

(***************************************************************************)
(* Interactions: each one re-executes the script from its first line       *)
(***************************************************************************)
\* the user uploads f (line 11)
Upload(f) ==
    /\ file' = Some(f)
    /\ choice' = IF IsSet(file) /\ Get(file).header = f.header THEN choice ELSE 1
    /\ FreshRun

\* the user clears the uploader (line 11)
RemoveFile ==
    /\ IsSet(file)
    /\ file' = NoValue
    /\ choice' = 1
    /\ FreshRun

\* the user picks option c of the select box the run has shown (line 30)
ChangeColumn(c) ==
    /\ IsSet(col)
    /\ c \in 1..Len(Get(df).columns)
    /\ c # choice
    /\ choice' = c
    /\ UNCHANGED file
    /\ FreshRun

(***************************************************************************)
(* The script, line by line                                                *)
(***************************************************************************)
\* lines 8-13 and 97-98
ScriptStart ==
    /\ pc = "start"
    /\ IF IsSet(file)
         THEN out' = Banner /\ pc' = "read_csv"
         ELSE out' = Banner \o <<El("info", "Please upload a CSV file")>> /\ pc' = "done"
    /\ UNCHANGED <<file, choice, df, col, series, result, exc>>

\* line 15
ReadCsv ==
    /\ pc = "read_csv"
    /\ IF Get(file).parses
         THEN /\ df' = Some(ParseCsv(Get(file)))
              /\ pc' = "raw"
              /\ UNCHANGED <<out, exc>>
         ELSE /\ Uncaught("read_csv", "ParserError")
              /\ UNCHANGED df
    /\ UNCHANGED <<file, choice, col, series, result>>

\* lines 17-18
ShowRaw ==
    /\ pc = "raw"
    /\ out' = out \o RawPanel(Get(df))
    /\ pc' = "year"
    /\ UNCHANGED <<file, choice, df, col, series, result, exc>>

\* lines 21-22
CoerceYear ==
    /\ pc = "year"
    /\ LET d == RenameFirst(Get(df))
       IN  IF YearIsOneColumn(d) /\ YearCasts(d)
             THEN /\ df' = Some(CoerceYearColumn(d))
                  /\ pc' = "dropna"
                  /\ UNCHANGED <<out, exc>>
             ELSE /\ df' = Some(d)
                  /\ Uncaught("year", "TypeError")
    /\ UNCHANGED <<file, choice, col, series, result>>

\* line 23
DropNaYear ==
    /\ pc = "dropna"
    /\ df' = Some(DropNaYearRows(Get(df)))
    /\ pc' = "set_index"
    /\ UNCHANGED <<file, choice, col, series, result, out, exc>>

\* lines 26-27
SetIndex ==
    /\ pc = "set_index"
    /\ df' = Some(SetYearIndex(Get(df)))
    /\ pc' = "select"
    /\ UNCHANGED <<file, choice, col, series, result, out, exc>>

\* line 30
SelectColumn ==
    /\ pc = "select"
    /\ col' = Some(SelectBox(Get(df).columns, choice))
    /\ out' = Append(out, El("selectbox", "Select column for time series analysis"))
    /\ pc' = "series"
    /\ UNCHANGED <<file, choice, df, series, result, exc>>

\* line 33
CoerceSeries ==
    /\ pc = "series"
    /\ IF IsSet(Get(col))
         THEN /\ series' = Some(NumericSeries(Get(df), Get(Get(col))))
              /\ pc' = "chart"
              /\ UNCHANGED <<out, exc>>
         ELSE /\ Uncaught("series", "KeyError")
              /\ UNCHANGED series
    /\ UNCHANGED <<file, choice, df, col, result>>

\* lines 35-41: the plot is not inside a try
Chart ==
    /\ pc = "chart"
    /\ \E o \in PlotOutcomes(Get(series)) :
         IF o.ok
           THEN /\ out' = out \o <<El("subheader", "Selected Series"), El("pyplot", "series")>>
                /\ pc' = "adf"
                /\ UNCHANGED exc
           ELSE /\ pc' = "crashed"
                /\ exc' = Some([at |-> "chart", type |-> "ValueError"])
                /\ out' = out \o <<El("subheader", "Selected Series"), El("exception", "ValueError")>>
    /\ UNCHANGED <<file, choice, df, col, series, result>>

\* lines 46-56
Adf ==
    /\ pc = "adf"
    /\ \E o \in AdfOutcomes(Get(series)) :
         /\ result' = IF o.ok THEN Some(o) ELSE result
         /\ out' = out \o <<El("subheader", "Stationarity Test (ADF)")>> \o AdfPanel(o)
    /\ pc' = "acf"
    /\ UNCHANGED <<file, choice, df, col, series, exc>>

\* the correlation block without its try: a failure ends the run
AcfUncaught ==
    /\ pc = "acf"
    /\ \E o \in AcfOutcomes(Get(series)) :
         IF o.ok
           THEN /\ out' = out \o <<El("subheader", "Autocorrelation and Partial Autocorrelation")>> \o AcfPanel(o)
                /\ pc' = "decompose"
                /\ UNCHANGED exc
           ELSE /\ pc' = "crashed"
                /\ exc' = Some([at |-> "acf", type |-> "ValueError"])
                /\ out' = out \o <<El("subheader", "Autocorrelation and Partial Autocorrelation"),
                                   El("exception", "ValueError")>>
    /\ UNCHANGED <<file, choice, df, col, series, result>>

\* the correlation block showing the figure the name fig was bound to before
AcfShowsOldFigure ==
    /\ pc = "acf"
    /\ \E o \in AcfOutcomes(Get(series)) :
         out' = out \o <<El("subheader", "Autocorrelation and Partial Autocorrelation")>>
                    \o (IF o.ok THEN <<El("pyplot", "series")>> ELSE AcfPanel(o))
    /\ pc' = "decompose"
    /\ UNCHANGED <<file, choice, df, col, series, result, exc>>

\* lines 61-68
Acf ==
    /\ pc = "acf"
    /\ \E o \in AcfOutcomes(Get(series)) :
         out' = out \o <<El("subheader", "Autocorrelation and Partial Autocorrelation")>> \o AcfPanel(o)
    /\ pc' = "decompose"
    /\ UNCHANGED <<file, choice, df, col, series, result, exc>>

\* lines 73-95
Decompose ==
    /\ pc = "decompose"
    /\ \E o \in DecompOutcomes(Get(series)) :
         out' = out \o <<El("subheader", "Decomposition of Time Series")>> \o DecompPanel(o)
    /\ pc' = "done"
    /\ UNCHANGED <<file, choice, df, col, series, result, exc>>

Cleaning ==
    \/ ScriptStart
    \/ ReadCsv
    \/ ShowRaw
    \/ CoerceYear
    \/ DropNaYear
    \/ SetIndex
    \/ SelectColumn
    \/ CoerceSeries

Analysis ==
    \/ Chart
    \/ Adf
    \/ Acf
    \/ Decompose

Interaction ==
    \/ \E f \in SessionFiles : Upload(f)
    \/ RemoveFile
    \/ \E c \in 1..2 : ChangeColumn(c)

Next == Interaction \/ Cleaning \/ Analysis

\* a session: uploads, column changes and the runs they start
Spec == Init /\ [][Next]_vars

\* one run over any small upload, with any valid selection, up to the series
InitClean ==
    /\ file \in {NoValue} \cup {Some(f) : f \in AllTables \cup {Garbage}}
    /\ choice \in {c \in 1..2 : c = 1 \/ (IsSet(file) /\ c < Len(Get(file).header))}
    /\ pc = "start"
    /\ df = NoValue
    /\ col = NoValue
    /\ series = NoValue
    /\ result = NoValue
    /\ out = <<>>
    /\ exc = NoValue

SpecClean == InitClean /\ [][Cleaning]_vars

(***************************************************************************)
(* Vocabulary of the properties                                            *)
(***************************************************************************)
Has(w, t) == \E i \in 1..Len(out) : out[i].w = w /\ out[i].t = t
Times(w, t) == Cardinality({i \in 1..Len(out) : out[i].w = w /\ out[i].t = t})
Ended == pc \in {"done", "crashed"}

AdfFailed == Has("error", "ADF test failed")
AcfFailed == Has("error", "ACF/PACF plotting failed")
DecompFailed == Has("error", "Decomposition failed")

PanelOrder ==
    <<"Raw Data", "Selected Series", "Stationarity Test (ADF)",
      "Autocorrelation and Partial Autocorrelation", "Decomposition of Time Series">>

\* the panel an element belongs to, 0 for the elements outside the five panels
PanelOf(e) ==
    CASE e.w = "subheader" -> CHOOSE k \in 1..Len(PanelOrder) : PanelOrder[k] = e.t
      [] e.w = "write" /\ e.t = "df.head" -> 1
      [] e.w = "pyplot" /\ e.t = "series" -> 2
      [] e.w = "write" /\ e.t # "df.head" -> 3
      [] e.w \in {"success", "warning"} -> 3
      [] e.w = "error" /\ e.t = "ADF test failed" -> 3
      [] e.w = "pyplot" /\ e.t = "acf_pacf" -> 4
      [] e.w = "error" /\ e.t = "ACF/PACF plotting failed" -> 4
      [] e.w = "pyplot" /\ e.t = "decomposition" -> 5
      [] e.w = "markdown" -> 5
      [] e.w = "error" /\ e.t = "Decomposition failed" -> 5
      [] OTHER -> 0

IsSubheader(e) == e.w = "subheader"
InPanel(e) == PanelOf(e) # 0

\* the first column's token is one numeric coercion accepts
YearParses(r) == r[1].k \notin {"text", "blank"}

\* C1: a failure of any of the three analyzers is caught at that analyzer and
\* shown as one error message; it never ends the run, every later analyzer is
\* still attempted, and what the earlier panels rendered stays on the page.
C1_AnalyzerFailuresContained ==
    /\ IsSet(exc) => Get(exc).at \notin {"adf", "acf", "decompose"}
    /\ Times("error", "ADF test failed") <= 1
    /\ Times("error", "ACF/PACF plotting failed") <= 1
    /\ Times("error", "Decomposition failed") <= 1
    /\ AdfFailed =>
         /\ pc \in {"acf", "decompose", "done"}
         /\ Has("write", "df.head") /\ Has("pyplot", "series")
         /\ ~Has("success", "Series is likely stationary")
         /\ ~Has("warning", "Series is not stationary")
         /\ pc \in {"decompose", "done"} =>
              Has("subheader", "Autocorrelation and Partial Autocorrelation")
         /\ pc = "done" => Has("subheader", "Decomposition of Time Series")
    /\ AcfFailed =>
         /\ pc \in {"decompose", "done"}
         /\ Has("write", "df.head") /\ Has("pyplot", "series")
         /\ Has("subheader", "Stationarity Test (ADF)")
         /\ AdfFailed \/ Has("write", "p-value")
         /\ ~Has("pyplot", "acf_pacf")
         /\ pc = "done" => Has("subheader", "Decomposition of Time Series")
    /\ DecompFailed =>
         /\ pc = "done"
         /\ Has("write", "df.head") /\ Has("pyplot", "series")
         /\ AdfFailed \/ Has("write", "p-value")
         /\ AcfFailed \/ Has("pyplot", "acf_pacf")
         /\ ~Has("pyplot", "decomposition")

\* a run in which the first two analyzers failed and the third still ran and succeeded
C1_Witness ==
    /\ pc = "done"
    /\ AdfFailed /\ AcfFailed
    /\ Has("pyplot", "decomposition")

\* C2: with an empty Selected Series the run does not crash; the three
\* analyzer panels are reached and each shows its own caught-error message.
C2_EmptySeriesHandled ==
    (IsSet(series) /\ IsEmpty(Get(series))) =>
        /\ pc # "crashed"
        /\ pc = "done" => AdfFailed /\ AcfFailed /\ DecompFailed

\* C3: an upload that does not parse, a year column with unparsable values or
\* a table without value columns ends the run with a prompt to upload valid
\* data, never with an uncaught exception.
C3_InputErrorsNonFatal ==
    LET f == Get(file)
        bad == \/ ~f.parses
               \/ Len(f.header) = 1
               \/ \E i \in 1..Len(f.rows) : ~YearParses(f.rows[i])
    IN  (IsSet(file) /\ bad /\ Ended) => (pc = "done" /\ \E i \in 1..Len(out) : out[i].w = "info")

C5_SeriesFiniteNumeric ==
    IsSet(series) =>
        LET d    == Get(df)
            s    == Get(series)
            j    == CHOOSE k \in 1..Len(d.columns) : d.columns[k] = Get(Get(col))
            from == {i \in 1..Len(d.data) : d.data[i][j].k \in {"int", "frac", "inf"}}
        IN  /\ \A i \in 1..Len(s.values) : s.values[i].k = "float"
            /\ Len(s.values) = Cardinality(from)
            /\ Len(s.index) = Len(s.values)
            /\ \A i \in 1..Len(s.values) :
                 \E r \in from :
                    /\ Cardinality({q \in from : q < r}) = i - 1
                    /\ s.index[i] = d.index[r]

\* C6: the years of the index are unique and in non-decreasing order.
C6_IndexUniqueSorted ==
    pc \in {"select", "series", "chart"} =>
        LET ix == Get(df).index
        IN  \A i \in 1..Len(ix) : \A j \in 1..Len(ix) : i < j => ix[i].v < ix[j].v

\* C7: when the test returns a p-value exactly one verdict is shown: "likely
\* stationary" when the p-value is below 0.05, "not stationary" in every other
\* case, a p-value of exactly 0.05 included.
C7_VerdictThreshold ==
    IsSet(result) =>
        LET p == Get(result).p
            below == ~p.nan /\ p.c + 1 <= PThreshold
        IN  /\ Times("success", "Series is likely stationary")
                 + Times("warning", "Series is not stationary") = 1
            /\ Has("success", "Series is likely stationary") <=> below
            /\ Has("warning", "Series is not stationary") <=> ~below

\* the test returned exactly 0.05 and the series was called not stationary
C7_Witness ==
    /\ IsSet(result)
    /\ ~Get(result).p.nan
    /\ Get(result).p.c = PThreshold
    /\ Has("warning", "Series is not stationary")

\* C8: the panels appear in the order raw data, series chart, stationarity,
\* ACF/PACF, decomposition: each at most once, none before an earlier one,
\* each opened by its heading, and all five once a run gets past the chart.
C8_PanelOrder ==
    LET hs == SelectSeq(out, IsSubheader)
        es == SelectSeq(out, InPanel)
    IN  /\ Len(hs) <= Len(PanelOrder)
        /\ \A i \in 1..Len(hs) : hs[i].t = PanelOrder[i]
        /\ \A i \in 1..Len(es) : \A j \in 1..Len(es) : i < j => PanelOf(es[i]) <= PanelOf(es[j])
        /\ \A i \in 1..Len(es) :
             (i = 1 \/ PanelOf(es[i - 1]) < PanelOf(es[i])) => IsSubheader(es[i])
        /\ (pc = "done" /\ IsSet(file)) => Len(hs) = Len(PanelOrder)

\* a finished run whose stationarity test failed and whose decomposition rendered
C8_Witness ==
    /\ pc = "done"
    /\ AdfFailed
    /\ Has("pyplot", "acf_pacf")
    /\ Has("pyplot", "decomposition")

\* C9: a Selected Series of fewer than 20 observations makes the decomposition
\* fail with a caught "Decomposition failed" message while the chart and the
\* stationarity and correlation panels of the run stay; a series of at least
\* 20 observations is not rejected for its length.
C9_ShortSeriesDecomposition ==
    (IsSet(series) /\ Ended) =>
        LET n == Len(Get(series).values)
        IN  /\ n < 2 * Period =>
                /\ pc = "done"
                /\ DecompFailed
                /\ Has("pyplot", "series")
                /\ Has("subheader", "Stationarity Test (ADF)")
                /\ Has("subheader", "Autocorrelation and Partial Autocorrelation")
            /\ n >= 2 * Period =>
                ~\E i \in 1..Len(out) : out[i].w = "error" /\ out[i].e = "too_short"

\* C10: without a file a run shows the informational prompt and nothing else,
\* and reads, selects and analyses nothing; with a file every run starts from
\* the first line with no script variable bound, so that what a run derives
\* comes from the current upload and the current selection.
C10_TwoStatesFreshRuns ==
    /\ pc = "start" =>
         /\ ~IsSet(df) /\ ~IsSet(col) /\ ~IsSet(series) /\ ~IsSet(result)
         /\ out = <<>>
    /\ ~IsSet(file) =>
         /\ pc \in {"start", "done"}
         /\ ~IsSet(df) /\ ~IsSet(col) /\ ~IsSet(series) /\ ~IsSet(result)
         /\ pc = "done" => out = Banner \o <<El("info", "Please upload a CSV file")>>
    /\ IsSet(file) => ~\E i \in 1..Len(out) : out[i].w = "info"
    /\ pc \in {"raw", "year"} => Get(df).data = Get(file).rows
    /\ (IsSet(col) /\ IsSet(Get(col))) => Get(Get(col)) = Get(file).header[choice + 1]
    /\ IsSet(series) => Len(Get(series).values) <= Len(Get(file).rows)

\* a run started by a column change has finished on the second column
C10_Witness ==
    /\ pc = "done"
    /\ IsSet(file)
    /\ choice = 2
    /\ IsSet(series)

====
